---- MODULE Spec2Model ----
(***************************************************************************)
(* A model of the chat hub of src/server.py (class ChatServer): the        *)
(* accept loop (start), one handle_client thread and one send_messages     *)
(* thread per accepted connection, route_message, disconnect_client and    *)
(* shutdown, at the granularity of the statements that touch the shared    *)
(* state (self.clients, self.message_queues, the Queue objects, self.lock  *)
(* and the connections).                                                   *)
(*                                                                         *)
(* Python threads are preemptible between bytecodes, so each statement     *)
(* that reads or writes shared state outside the lock is a step of its     *)
(* own.  A `with self.lock:` block is a sequence of steps taken while the  *)
(* thread owns the lock; taking the lock is part of the block's first      *)
(* step and releasing it part of its last, and statements of one block     *)
(* that no thread without the lock can tell apart share a step.  A         *)
(* thread's private statements (logging, print, parsing) belong to the     *)
(* step before them.  Messages are the strings the server builds (the      *)
(* Russian literals of the source are rendered in English, one literal     *)
(* for one literal).  KeyboardInterrupt is delivered to the main thread    *)
(* while it is blocked in accept().                                        *)
(***************************************************************************)
EXTENDS Integers, Sequences, FiniteSets, TLC

\* ------------------------------------------------------------------ bounds
\* Connections the accept loop takes before the model stops accepting.
MaxClients == 2
\* Lines of any kind the server receives, over all connections, when the
\* peers send what they like.
MaxLines == 1
\* Lines the server receives when the peers send well-formed /send lines only.
MaxSends == 2
\* Connections whose peers send those /send lines (the other peers only
\* connect and leave).
MaxTalkers == 1

Ids == 1..MaxClients
\* An identity no accepted client ever gets within the bounds.
Stranger == MaxClients + 1

\* ----------------------------------------------------------------- threads
Main == <<"main", 0>>
H(i) == <<"h", i>>
S(i) == <<"s", i>>
Threads == {Main} \cup {H(i) : i \in Ids} \cup {S(i) : i \in Ids}
NoThread == <<"free", 0>>

\* ----------------------------------------------------------------- strings
Digit == <<"0", "1", "2", "3", "4", "5", "6", "7", "8", "9">>

\* str(n) for a non-negative integer: its decimal digits.
RECURSIVE str(_)
str(n) == IF n < 10 THEN Digit[n + 1] ELSE str(n \div 10) \o Digit[(n % 10) + 1]

\* The strings str() yields for the identities a line can name.
Numerals == {str(n) : n \in 0..Stranger}

\* parts[1].isdigit(), on one whitespace-free token.
isdigit(tok) == tok \in Numerals

\* int(parts[1]) of a token that passed isdigit().
int(tok) == CHOOSE n \in 0..Stranger : str(n) = tok

\* ', '.join(strs) of a sequence of strings.
RECURSIVE join(_, _)
join(sep, strs) ==
    IF Len(strs) = 0 THEN ""
    ELSE IF Len(strs) = 1 THEN strs[1]
    ELSE strs[1] \o sep \o join(sep, Tail(strs))

\* The messages the server builds.
WelcomeMsg(id) == str(id)
RoutedMsg(sender, body) == "message from " \o str(sender) \o ": " \o body
DeliveredMsg(rcpt) == "delivered to " \o str(rcpt)
NotFoundMsg(rcpt) == "error: client " \o str(rcpt) \o " not found"
BadFormatMsg == "error: bad format, use /send <ID> <message>"
UnknownMsg == "error: unknown command"
UsersMsg(ids) == "users: " \o join(", ", [k \in 1..Len(ids) |-> str(ids[k])])

\* The body of the k-th line the server receives: bodies are opaque to the
\* server, and numbering them keeps two lines apart.
Body(k) == "m" \o str(k)

\* One received line, as data.split(maxsplit=2) cuts it.
SendLine(tok, body) == <<"/send", tok, body>>
UsersLine == <<"/users">>
SendLines(k) == {SendLine(str(r), Body(k)) : r \in 1..Stranger}
Lines(k) ==
    SendLines(k) \cup {SendLine("abc", Body(k)), <<"/send", str(1)>>, UsersLine, <<"hello">>}
NoLine == <<>>

\* What the world outside does in one run: how many lines the peers send, from
\* how many connections, of which kind, and whether the operator interrupts
\* the server.  Either the peers send a few lines of any kind, or one peer
\* sends more lines, all of them well-formed /send lines.
Worlds ==
    {[lines |-> MaxLines, talkers |-> MaxClients, sends_only |-> FALSE, ctrl_c |-> TRUE],
     [lines |-> MaxSends, talkers |-> MaxTalkers, sends_only |-> TRUE, ctrl_c |-> FALSE]}

VARIABLES
    client_counter,   \* self.client_counter
    client_id,        \* start()'s local client_id
    clients,          \* the keys of self.clients, in insertion order = ascending
    message_queues,   \* the keys of self.message_queues
    queue,            \* queue[i]: the items of the Queue object made for i
    conn_closes,      \* conn_closes[i]: how often conn.close() ran on i's socket
    listening,        \* self.server_socket is open
    lock,             \* the thread that owns self.lock, or NoThread
    pc,               \* pc[t]: where thread t is
    exc,              \* exc[t]: the exception that left t's code, "" if none
    snapshot,         \* shutdown()'s list(self.clients.keys()), what is left of it
    data,             \* data[i]: the line handle_client(i) is processing
    nlines,           \* lines received so far, over all connections
    talkers,          \* the identities whose peers have sent a line
    world,            \* the member of Worlds this run is in
    iter,             \* iter[i]: the dict iterator of handle_client(i)'s /users
    message,          \* message[i]: send_messages(i)'s local message
    \* history (read by no action's guard)
    assigned,         \* the identities start() handed out, in order
    enqueued,         \* enqueued[i]: everything ever put into i's Queue, in order
    written,          \* written[i]: everything sendall() wrote to i's socket
    failed            \* failed[i]: i's own transport failed or its peer closed

vars == <<client_counter, client_id, clients, message_queues, queue, conn_closes,
          listening, lock, pc, exc, snapshot, data, nlines, talkers, world,
          iter,          message,
          assigned, enqueued, written, failed>>

registry == <<clients, message_queues>>
queues == <<queue, enqueued>>
mainLocals == <<client_counter, client_id, snapshot, assigned>>
handlerLocals == <<data, nlines, talkers, world>>
senderLocals == <<message, written>>

\* No dict iterator.  began and gone are history: who was connected, and whose
\* teardown was over, when the /users line arrived.
NoIter == [used |-> 0, pos |-> 0, acc |-> <<>>, mutated |-> FALSE,
           began |-> {}, gone |-> {}]

\* The process lives until its main thread ends (the workers are daemon threads).
Running == pc[Main] \notin {"stopped", "crashed"}

Min(set) == CHOOSE k \in set : \A other \in set : k <= other

\* list(d.keys()) of a dict whose keys went in in ascending order.
RECURSIVE keys(_)
keys(set) == IF set = {} THEN <<>> ELSE <<Min(set)>> \o keys(set \ {Min(set)})

\* Queue.put(item) on the Queue object made for i, by any thread.
put(q, i, item) == [q EXCEPT ![i] = Append(@, item)]

\* A change of self.clients, seen by every dict iterator that is under way.
touched == [i \in Ids |-> IF pc[H(i)] = "users_next"
                            THEN [iter[i] EXCEPT !.mutated = TRUE] ELSE iter[i]]

\* The places of disconnect_client.
DcPcs == {"dc_enter", "dc_pop_queue"}

\* Where a thread goes when an exception leaves its code: handle_client's
\* `finally` calls disconnect_client; an exception out of start() ends the
\* process; send_messages ends.
Unwind(t) ==
    IF t = Main THEN "crashed"
    ELSE IF t[1] = "h" THEN (IF pc[t] = "h_start" \/ pc[t] \in DcPcs THEN "h_dead" ELSE "dc_enter")
    ELSE "s_dead"

Raise(t, e) ==
    /\ pc' = [pc EXCEPT ![t] = Unwind(t)]
    /\ exc' = [exc EXCEPT ![t] = e]

Goto(t, place) == pc' = [pc EXCEPT ![t] = place]

Init ==
    /\ client_counter = 0
    /\ client_id = 0
    /\ clients = {}
    /\ message_queues = {}
    /\ queue = [i \in Ids |-> <<>>]
    /\ conn_closes = [i \in Ids |-> 0]
    /\ listening = TRUE
    /\ lock = NoThread
    /\ pc = [t \in Threads |-> IF t = Main THEN "accept" ELSE "unborn"]
    /\ exc = [t \in Threads |-> ""]
    /\ snapshot = <<>>
    /\ data = [i \in Ids |-> NoLine]
    /\ nlines = 0
    /\ talkers = {}
    /\ world \in Worlds
    /\ iter = [i \in Ids |-> NoIter]
    /\ message = [i \in Ids |-> ""]
    /\ assigned = <<>>
    /\ enqueued = [i \in Ids |-> <<>>]
    /\ written = [i \in Ids |-> <<>>]
    /\ failed = [i \in Ids |-> FALSE]

\* ------------------------------------------------------------------ start()
\* A counter derived from the registry's size hands an identity out again
\* once its client has left.
NextCounterFromSize == Cardinality(clients) + 1

\* self.client_counter += 1
NextCounter == client_counter + 1

\* accept() returns a connection, the counter is bumped and read, and the
\* `with self.lock:` block starts: self.clients[client_id] = (conn, addr)
Accept ==
    /\ pc[Main] = "accept"
    /\ listening
    /\ client_counter < MaxClients
    /\ lock = NoThread
    /\ lock' = Main
    /\ client_counter' = NextCounter
    /\ client_id' = client_counter'
    /\ assigned' = Append(assigned, client_id')
    /\ clients' = clients \cup {client_id'}
    /\ iter' = touched
    /\ Goto(Main, "ins_queue")
    /\ UNCHANGED <<message_queues, queues, conn_closes, listening, exc, snapshot,
                   handlerLocals, senderLocals, failed>>

\* self.message_queues[client_id] = Queue(), and the lock is released.
InsertQueue ==
    /\ pc[Main] = "ins_queue"
    /\ message_queues' = message_queues \cup {client_id}
    /\ queue' = [queue EXCEPT ![client_id] = <<>>]
    /\ lock' = NoThread
    /\ Goto(Main, "welcome")
    /\ UNCHANGED <<clients, enqueued, conn_closes, listening, exc, mainLocals,
                   handlerLocals, iter, senderLocals, failed>>

\* self.message_queues[client_id].put(str(client_id)), outside the lock.
PutWelcome ==
    /\ pc[Main] = "welcome"
    /\ IF client_id \in message_queues
       THEN /\ queue' = put(queue, client_id, WelcomeMsg(client_id))
            /\ enqueued' = put(enqueued, client_id, WelcomeMsg(client_id))
            /\ Goto(Main, "spawn")
            /\ UNCHANGED exc
       ELSE /\ Raise(Main, "KeyError@59")
            /\ UNCHANGED queues
    /\ UNCHANGED <<registry, conn_closes, listening, lock, mainLocals,
                   handlerLocals, iter, senderLocals, failed>>

\* The two threading.Thread(...).start() calls: handle_client, send_messages.
\* A thread that has not run yet does not show, so both start in one step.
Spawn ==
    /\ pc[Main] = "spawn"
    /\ pc' = [pc EXCEPT ![Main] = "accept",
                        ![H(client_id)] = "h_start", ![S(client_id)] = "s_start"]
    /\ UNCHANGED <<registry, queues, conn_closes, listening, lock, exc, mainLocals,
                   handlerLocals, iter, senderLocals, failed>>

\* --------------------------------------------------------------- shutdown()
\* KeyboardInterrupt in accept(): start() calls shutdown().
\* with self.lock: for client_id in list(self.clients.keys()):
Interrupt ==
    /\ pc[Main] = "accept"
    /\ world.ctrl_c
    /\ lock = NoThread
    /\ lock' = Main
    /\ snapshot' = keys(clients)
    /\ Goto(Main, "sd_loop")
    /\ UNCHANGED <<registry, queues, conn_closes, listening, exc, client_counter,
                   client_id, assigned, handlerLocals, iter, senderLocals, failed>>

\* The loop body: self.disconnect_client(client_id), called with the lock held.
ShutdownDisconnect ==
    /\ pc[Main] = "sd_loop"
    /\ snapshot # <<>>
    /\ Goto(Main, "dc_enter")
    /\ UNCHANGED <<registry, queues, conn_closes, listening, lock, exc, mainLocals,
                   handlerLocals, iter, senderLocals, failed>>

\* After the loop: self.server_socket.close(); the lock is released and
\* start() returns.
ShutdownClose ==
    /\ pc[Main] = "sd_loop"
    /\ snapshot = <<>>
    /\ listening' = FALSE
    /\ lock' = NoThread
    /\ Goto(Main, "stopped")
    /\ UNCHANGED <<registry, queues, conn_closes, exc, mainLocals,
                   handlerLocals, iter, senderLocals, failed>>

\* ------------------------------------------------------ disconnect_client()
\* The identity a thread's disconnect_client call names.
DcTarget(t) == IF t = Main THEN Head(snapshot) ELSE t[2]

\* Where disconnect_client returns to.
DcReturn(t) ==
    IF t = Main THEN "sd_loop" ELSE IF t[1] = "h" THEN "h_done" ELSE "s_done"

\* shutdown()'s loop variable moves on when its call returns.
DcReturned(t) ==
    /\ Goto(t, DcReturn(t))
    /\ snapshot' = IF t = Main THEN Tail(snapshot) ELSE snapshot

\* disconnect_client without its membership test.
DcPresentUnchecked(id) == TRUE

\* if client_id in self.clients
DcPresent(id) == id \in clients

\* with self.lock: if client_id in self.clients:
\*     conn, addr = self.clients.pop(client_id)
\* (else nothing, and the lock is released).  threading.Lock is not
\* reentrant: the thread waits until nobody owns the lock, itself included.
DcEnter(t) ==
    /\ Running
    /\ pc[t] = "dc_enter"
    /\ lock = NoThread
    /\ IF ~DcPresent(DcTarget(t))
       THEN /\ DcReturned(t)
            /\ UNCHANGED <<lock, clients, iter, exc>>
       ELSE IF DcTarget(t) \in clients
       THEN /\ lock' = t
            /\ clients' = clients \ {DcTarget(t)}
            /\ iter' = touched
            /\ Goto(t, "dc_pop_queue")
            /\ UNCHANGED <<snapshot, exc>>
       ELSE /\ Raise(t, "KeyError@142")
            /\ UNCHANGED <<lock, clients, iter, snapshot>>
    /\ UNCHANGED <<message_queues, queues, conn_closes, listening, client_counter,
                   client_id, assigned, handlerLocals, senderLocals, failed>>

\* disconnect_client without self.message_queues.pop(client_id).
DcKeepsQueue(t) ==
    /\ Running
    /\ pc[t] = "dc_pop_queue"
    /\ lock' = NoThread
    /\ conn_closes' = [conn_closes EXCEPT ![DcTarget(t)] = @ + 1]
    /\ DcReturned(t)
    /\ UNCHANGED <<registry, queues, listening, exc, client_counter, client_id,
                   assigned, handlerLocals, iter, senderLocals, failed>>

\* self.message_queues.pop(client_id); conn.close(); the lock is released
\* and the call returns.
DcPopQueue(t) ==
    /\ Running
    /\ pc[t] = "dc_pop_queue"
    /\ lock' = NoThread
    /\ IF DcTarget(t) \in message_queues
       THEN /\ message_queues' = message_queues \ {DcTarget(t)}
            /\ conn_closes' = [conn_closes EXCEPT ![DcTarget(t)] = @ + 1]
            /\ DcReturned(t)
            /\ UNCHANGED exc
       ELSE /\ Raise(t, "KeyError@143")
            /\ UNCHANGED <<message_queues, conn_closes, snapshot>>
    /\ UNCHANGED <<clients, queues, listening, client_counter, client_id, assigned,
                   handlerLocals, iter, senderLocals, failed>>

\* ---------------------------------------------------------- handle_client()
\* conn, addr = self.clients[client_id], before the try block.
HandlerStart(i) ==
    /\ Running
    /\ pc[H(i)] = "h_start"
    /\ IF i \in clients
       THEN Goto(H(i), "recv") /\ UNCHANGED exc
       ELSE Raise(H(i), "KeyError@81")
    /\ UNCHANGED <<registry, queues, conn_closes, listening, lock, mainLocals,
                   handlerLocals, iter, senderLocals, failed>>

\* while True: conn.recv(1024) is called: on a socket this process has closed
\* it raises OSError (not the ConnectionResetError the loop catches); on an
\* open one the thread blocks in it.
RecvCall(i) ==
    /\ Running
    /\ pc[H(i)] = "recv"
    /\ IF conn_closes[i] > 0
       THEN Raise(H(i), "OSError@85")
       ELSE Goto(H(i), "recv_wait") /\ UNCHANGED exc
    /\ UNCHANGED <<registry, queues, conn_closes, listening, lock, mainLocals,
                   handlerLocals, iter, senderLocals, failed>>

\* Which branch of handle_client takes a line.
Dispatch(line) ==
    IF line[1] = "/send"
    THEN (IF Len(line) = 3 /\ isdigit(line[2]) THEN "rt_enter" ELSE "bad_format")
    ELSE IF line[1] = "/users" THEN "users_iter"
    ELSE "unknown"

\* recv() returns a line, and the loop picks its branch.
RecvLine(i) ==
    /\ Running
    /\ pc[H(i)] = "recv_wait"
    /\ nlines < world.lines
    /\ Cardinality(talkers \cup {i}) <= world.talkers
    /\ \E line \in (IF world.sends_only THEN SendLines(nlines + 1) ELSE Lines(nlines + 1)) :
        /\ data' = [data EXCEPT ![i] = line]
        /\ iter' = [iter EXCEPT ![i] =
                IF line = UsersLine
                THEN [NoIter EXCEPT !.began = clients \cap message_queues,
                                    !.gone = {k \in Ids : conn_closes[k] > 0}]
                ELSE NoIter]
        /\ Goto(H(i), Dispatch(line))
    /\ nlines' = nlines + 1
    /\ talkers' = talkers \cup {i}
    /\ UNCHANGED <<registry, queues, conn_closes, listening, lock, exc, mainLocals,
                   world, senderLocals, failed>>

\* recv() returns '' (the peer closed: break) or raises ConnectionResetError
\* (caught): either way the finally block calls disconnect_client.
RecvEnd(i) ==
    /\ Running
    /\ pc[H(i)] = "recv_wait"
    /\ failed' = [failed EXCEPT ![i] = TRUE]
    /\ Goto(H(i), "dc_enter")
    /\ UNCHANGED <<registry, queues, conn_closes, listening, lock, exc, mainLocals,
                   handlerLocals, iter, senderLocals>>

\* The line is dealt with: back to the top of the loop.
Handled(i) ==
    /\ Goto(H(i), "recv")
    /\ data' = [data EXCEPT ![i] = NoLine]
    /\ iter' = [iter EXCEPT ![i] = NoIter]

\* An exception leaves the try block.
Thrown(i, e) ==
    /\ Raise(H(i), e)
    /\ data' = [data EXCEPT ![i] = NoLine]
    /\ iter' = [iter EXCEPT ![i] = NoIter]

\* handle_client answering on the connection itself: conn.sendall(<a literal>).
PutOwnWrites(i, place, item, where) ==
    /\ Running
    /\ pc[H(i)] = place
    /\ written' = [written EXCEPT ![i] = Append(@, item)]
    /\ Handled(i)
    /\ UNCHANGED <<registry, queues, conn_closes, listening, lock, exc, mainLocals,
                   nlines, talkers, world, message, failed>>

\* self.message_queues[client_id].put(<a literal>): the two error branches.
PutOwn(i, place, item, where) ==
    /\ Running
    /\ pc[H(i)] = place
    /\ IF i \in message_queues
       THEN /\ queue' = put(queue, i, item)
            /\ enqueued' = put(enqueued, i, item)
            /\ Handled(i)
            /\ UNCHANGED exc
       ELSE /\ Thrown(i, where)
            /\ UNCHANGED queues
    /\ UNCHANGED <<registry, conn_closes, listening, lock, mainLocals, nlines, talkers, world,
                   senderLocals, failed>>

BadFormat(i) == PutOwn(i, "bad_format", BadFormatMsg, "KeyError@99")

Unknown(i) == PutOwn(i, "unknown", UnknownMsg, "KeyError@107")

\* /users: self.message_queues[client_id] is looked up first, then its put's
\* argument is computed: the generator expression takes iter(self.clients),
\* and the dict iterator remembers the dict's size.
UsersIter(i) ==
    /\ Running
    /\ pc[H(i)] = "users_iter"
    /\ IF i \in message_queues
       THEN /\ iter' = [iter EXCEPT ![i].used = Cardinality(clients)]
            /\ Goto(H(i), "users_next")
            /\ UNCHANGED <<exc, data>>
       ELSE Thrown(i, "KeyError@103")
    /\ UNCHANGED <<registry, queues, conn_closes, listening, lock, mainLocals,
                   nlines, talkers, world, senderLocals, failed>>

\* The keys the iterator has not passed.
Ahead(i) == {k \in clients : k > iter[i].pos}

\* The dict iterator has to raise RuntimeError: the dict's size is not the
\* remembered one (dictionary changed size during iteration), or a key is
\* found after as many keys as the dict had (dictionary keys changed during
\* iteration).
IterRaises(i) ==
    \/ Cardinality(clients) # iter[i].used
    \/ Ahead(i) # {} /\ Len(iter[i].acc) = iter[i].used

\* One step of ', '.join(str(x) for x in self.clients), without the lock.  A
\* dict changed under the iterator back to its old size may have moved its
\* entries: the iterator then passes over any of the keys ahead of it.
UsersNext(i) ==
    /\ Running
    /\ pc[H(i)] = "users_next"
    /\ IF IterRaises(i)
       THEN Thrown(i, "RuntimeError@104")
       ELSE /\ UNCHANGED <<exc, data>>
            /\ \/ /\ Ahead(i) # {}
                  /\ \E k \in (IF iter[i].mutated THEN Ahead(i) ELSE {Min(Ahead(i))}) :
                        iter' = [iter EXCEPT ![i].pos = k, ![i].acc = Append(@, k)]
                  /\ UNCHANGED pc
               \/ /\ Ahead(i) = {} \/ iter[i].mutated
                  /\ Goto(H(i), "users_put")
                  /\ UNCHANGED iter
    /\ UNCHANGED <<registry, queues, conn_closes, listening, lock, mainLocals,
                   nlines, talkers, world, senderLocals, failed>>

\* .put('...' + ', '.join(...)) on the Queue object looked up before.
UsersPut(i) ==
    /\ Running
    /\ pc[H(i)] = "users_put"
    /\ queue' = put(queue, i, UsersMsg(iter[i].acc))
    /\ enqueued' = put(enqueued, i, UsersMsg(iter[i].acc))
    /\ Handled(i)
    /\ UNCHANGED <<registry, conn_closes, listening, lock, exc, mainLocals,
                   nlines, talkers, world, senderLocals, failed>>

\* ---------------------------------------------------------- route_message()
Recipient(s) == int(data[s][2])

\* if recipient_id in self.clients
RouteFinds(r) == r \in clients

\* with self.lock: if recipient_id in self.clients:
\*     self.message_queues[recipient_id].put(f'message from {sender_id}: {message}')
\* A KeyError leaves the block, which releases the lock.
RouteHit(s) ==
    /\ Running
    /\ pc[H(s)] = "rt_enter"
    /\ lock = NoThread
    /\ RouteFinds(Recipient(s))
    /\ IF Recipient(s) \in message_queues
       THEN /\ lock' = H(s)
            /\ queue' = put(queue, Recipient(s), RoutedMsg(s, data[s][3]))
            /\ enqueued' = put(enqueued, Recipient(s), RoutedMsg(s, data[s][3]))
            /\ Goto(H(s), "rt_put_ack")
            /\ UNCHANGED <<exc, data, iter>>
       ELSE /\ Thrown(s, "KeyError@120")
            /\ UNCHANGED <<lock, queues>>
    /\ UNCHANGED <<registry, conn_closes, listening, mainLocals, nlines, talkers, world,
                   senderLocals, failed>>

\* The put to the sender's own queue that ends either branch of route_message,
\* and the release of the lock.
RoutePutOwn(s, item, where) ==
    /\ lock' = NoThread
    /\ IF s \in message_queues
       THEN /\ queue' = put(queue, s, item)
            /\ enqueued' = put(enqueued, s, item)
            /\ Handled(s)
            /\ UNCHANGED exc
       ELSE /\ Thrown(s, where)
            /\ UNCHANGED queues
    /\ UNCHANGED <<registry, conn_closes, listening, mainLocals, nlines, talkers, world,
                   senderLocals, failed>>

\* route_message with a special case: no acknowledgement to oneself.
RoutePutAckNotSelf(s) ==
    /\ Running
    /\ pc[H(s)] = "rt_put_ack"
    /\ IF Recipient(s) = s
       THEN /\ lock' = NoThread
            /\ Handled(s)
            /\ UNCHANGED <<exc, queues, registry, conn_closes, listening, mainLocals,
                           nlines, talkers, world, senderLocals, failed>>
       ELSE RoutePutOwn(s, DeliveredMsg(Recipient(s)), "KeyError@121")

\* self.message_queues[sender_id].put(f'delivered to {recipient_id}')
RoutePutAck(s) ==
    /\ Running
    /\ pc[H(s)] = "rt_put_ack"
    /\ RoutePutOwn(s, DeliveredMsg(Recipient(s)), "KeyError@121")

\* route_message telling every connected client about the miss.
RouteMissBroadcast(s) ==
    /\ Running
    /\ pc[H(s)] = "rt_enter"
    /\ lock = NoThread
    /\ ~RouteFinds(Recipient(s))
    /\ lock' = NoThread
    /\ queue' = [j \in Ids |-> IF j \in message_queues
                                 THEN Append(queue[j], NotFoundMsg(Recipient(s)))
                                 ELSE queue[j]]
    /\ enqueued' = [j \in Ids |-> IF j \in message_queues
                                    THEN Append(enqueued[j], NotFoundMsg(Recipient(s)))
                                    ELSE enqueued[j]]
    /\ Handled(s)
    /\ UNCHANGED <<exc, registry, conn_closes, listening, mainLocals, nlines, talkers,
                   world, senderLocals, failed>>

\* with self.lock: if recipient_id in self.clients: ... else:
\*     self.message_queues[sender_id].put(f'client {recipient_id} not found')
RouteMiss(s) ==
    /\ Running
    /\ pc[H(s)] = "rt_enter"
    /\ lock = NoThread
    /\ ~RouteFinds(Recipient(s))
    /\ RoutePutOwn(s, NotFoundMsg(Recipient(s)), "KeyError@124")

\* ---------------------------------------------------------- send_messages()
\* conn, _ = self.clients[client_id], before the try block.
SenderStart(i) ==
    /\ Running
    /\ pc[S(i)] = "s_start"
    /\ IF i \in clients
       THEN Goto(S(i), "s_lookup") /\ UNCHANGED exc
       ELSE Raise(S(i), "KeyError@129")
    /\ UNCHANGED <<registry, queues, conn_closes, listening, lock, mainLocals,
                   handlerLocals, iter, senderLocals, failed>>

\* self.message_queues[client_id], each turn of the loop; KeyError is not
\* among the exceptions the loop catches.
SenderLookup(i) ==
    /\ Running
    /\ pc[S(i)] = "s_lookup"
    /\ IF i \in message_queues
       THEN Goto(S(i), "s_get") /\ UNCHANGED exc
       ELSE Raise(S(i), "KeyError@133")
    /\ UNCHANGED <<registry, queues, conn_closes, listening, lock, mainLocals,
                   handlerLocals, iter, senderLocals, failed>>

\* A LifoQueue in Queue's place: the newest item first.
QueueGetNewest(items) ==
    [item |-> items[Len(items)], rest |-> SubSeq(items, 1, Len(items) - 1)]

\* Queue.get(): the oldest item, and the items that stay.
QueueGet(items) == [item |-> Head(items), rest |-> Tail(items)]

\* .get() on the Queue object looked up: blocks while it is empty.
SenderGet(i) ==
    /\ Running
    /\ pc[S(i)] = "s_get"
    /\ queue[i] # <<>>
    /\ message' = [message EXCEPT ![i] = QueueGet(queue[i]).item]
    /\ queue' = [queue EXCEPT ![i] = QueueGet(queue[i]).rest]
    /\ Goto(S(i), "s_write")
    /\ UNCHANGED <<registry, enqueued, conn_closes, listening, lock, exc, mainLocals,
                   handlerLocals, iter, written, failed>>

\* send_messages without its sendall: the message taken is dropped.
SenderWriteDrops(i) ==
    /\ Running
    /\ pc[S(i)] = "s_write"
    /\ conn_closes[i] = 0
    /\ message' = [message EXCEPT ![i] = ""]
    /\ Goto(S(i), "s_lookup")
    /\ UNCHANGED <<registry, queues, conn_closes, listening, lock, exc, mainLocals,
                   handlerLocals, iter, written, failed>>

\* conn.sendall(message.encode('utf-8')) succeeds.
SenderWrite(i) ==
    /\ Running
    /\ pc[S(i)] = "s_write"
    /\ conn_closes[i] = 0
    /\ written' = [written EXCEPT ![i] = Append(@, message[i])]
    /\ message' = [message EXCEPT ![i] = ""]
    /\ Goto(S(i), "s_lookup")
    /\ UNCHANGED <<registry, queues, conn_closes, listening, lock, exc, mainLocals,
                   handlerLocals, iter, failed>>

\* sendall raises ConnectionResetError or BrokenPipeError: the except clause
\* calls disconnect_client.
SenderWriteFails(i) ==
    /\ Running
    /\ pc[S(i)] = "s_write"
    /\ conn_closes[i] = 0
    /\ failed' = [failed EXCEPT ![i] = TRUE]
    /\ Goto(S(i), "dc_enter")
    /\ UNCHANGED <<registry, queues, conn_closes, listening, lock, exc, mainLocals,
                   handlerLocals, iter, senderLocals>>

\* sendall on a socket this process has closed raises OSError, which the
\* except clause does not name.
SenderWriteClosed(i) ==
    /\ Running
    /\ pc[S(i)] = "s_write"
    /\ conn_closes[i] > 0
    /\ Raise(S(i), "OSError@134")
    /\ UNCHANGED <<registry, queues, conn_closes, listening, lock, mainLocals,
                   handlerLocals, iter, senderLocals, failed>>

\* ----------------------------------------------------------- specification
Next ==
    \/ Accept
    \/ InsertQueue
    \/ PutWelcome
    \/ Spawn
    \/ Interrupt
    \/ ShutdownDisconnect
    \/ ShutdownClose
    \/ \E t \in Threads : DcEnter(t)
    \/ \E t \in Threads : DcPopQueue(t)
    \/ \E i \in Ids : HandlerStart(i)
    \/ \E i \in Ids : RecvCall(i)
    \/ \E i \in Ids : RecvLine(i)
    \/ \E i \in Ids : RecvEnd(i)
    \/ \E i \in Ids : BadFormat(i)
    \/ \E i \in Ids : Unknown(i)
    \/ \E i \in Ids : UsersIter(i)
    \/ \E i \in Ids : UsersNext(i)
    \/ \E i \in Ids : UsersPut(i)
    \/ \E i \in Ids : RouteHit(i)
    \/ \E i \in Ids : RoutePutAck(i)
    \/ \E i \in Ids : RouteMiss(i)
    \/ \E i \in Ids : SenderStart(i)
    \/ \E i \in Ids : SenderLookup(i)
    \/ \E i \in Ids : SenderGet(i)
    \/ \E i \in Ids : SenderWrite(i)
    \/ \E i \in Ids : SenderWriteFails(i)
    \/ \E i \in Ids : SenderWriteClosed(i)

Spec == Init /\ [][Next]_vars

\* ------------------------------------------------------ fair specification
\* The worlds the runs of the fair specification are in: either nobody sends
\* a line and the operator may interrupt the server, or one peer sends
\* well-formed /send lines and nobody interrupts.
LiveWorlds ==
    {[lines |-> 0, talkers |-> 0, sends_only |-> TRUE, ctrl_c |-> TRUE],
     [lines |-> MaxLines, talkers |-> MaxTalkers, sends_only |-> TRUE, ctrl_c |-> FALSE]}

LiveInit ==
    /\ client_counter = 0
    /\ client_id = 0
    /\ clients = {}
    /\ message_queues = {}
    /\ queue = [i \in Ids |-> <<>>]
    /\ conn_closes = [i \in Ids |-> 0]
    /\ listening = TRUE
    /\ lock = NoThread
    /\ pc = [t \in Threads |-> IF t = Main THEN "accept" ELSE "unborn"]
    /\ exc = [t \in Threads |-> ""]
    /\ snapshot = <<>>
    /\ data = [i \in Ids |-> NoLine]
    /\ nlines = 0
    /\ talkers = {}
    /\ world \in LiveWorlds
    /\ iter = [i \in Ids |-> NoIter]
    /\ message = [i \in Ids |-> ""]
    /\ assigned = <<>>
    /\ enqueued = [i \in Ids |-> <<>>]
    /\ written = [i \in Ids |-> <<>>]
    /\ failed = [i \in Ids |-> FALSE]

\* The steps that can happen in those worlds: all but the branches of
\* handle_client that no well-formed /send line takes.
LiveNext ==
    \/ Accept
    \/ InsertQueue
    \/ PutWelcome
    \/ Spawn
    \/ Interrupt
    \/ ShutdownDisconnect
    \/ ShutdownClose
    \/ \E t \in Threads : DcEnter(t)
    \/ \E t \in Threads : DcPopQueue(t)
    \/ \E i \in Ids : HandlerStart(i)
    \/ \E i \in Ids : RecvCall(i)
    \/ \E i \in Ids : RecvLine(i)
    \/ \E i \in Ids : RecvEnd(i)
    \/ \E i \in Ids : RouteHit(i)
    \/ \E i \in Ids : RoutePutAck(i)
    \/ \E i \in Ids : RouteMiss(i)
    \/ \E i \in Ids : SenderStart(i)
    \/ \E i \in Ids : SenderLookup(i)
    \/ \E i \in Ids : SenderGet(i)
    \/ \E i \in Ids : SenderWrite(i)
    \/ \E i \in Ids : SenderWriteFails(i)
    \/ \E i \in Ids : SenderWriteClosed(i)

\* The statements of each thread that wait for nothing outside the process:
\* a thread that can run one of them is scheduled sooner or later.
MainStep ==
    \/ InsertQueue \/ PutWelcome \/ Spawn
    \/ ShutdownDisconnect \/ ShutdownClose \/ DcEnter(Main) \/ DcPopQueue(Main)

HandlerStep(i) ==
    \/ HandlerStart(i) \/ RecvCall(i)
    \/ BadFormat(i) \/ Unknown(i) \/ UsersIter(i) \/ UsersNext(i) \/ UsersPut(i)
    \/ RouteHit(i) \/ RoutePutAck(i) \/ RouteMiss(i)
    \/ DcEnter(H(i)) \/ DcPopQueue(H(i))

SenderStep(i) ==
    \/ SenderStart(i) \/ SenderLookup(i) \/ SenderGet(i)
    \/ SenderWrite(i) \/ SenderWriteClosed(i)
    \/ DcEnter(S(i)) \/ DcPopQueue(S(i))

\* recv() on a connection the server has closed after a failed write: the
\* peer is gone, so the pending read ends.
PeerGone(i) == RecvEnd(i) /\ conn_closes[i] > 0

\* What the peers and the operator do (connect, send, hang up, break a write,
\* interrupt) is under no fairness: they may never do it.
Fairness ==
    /\ WF_vars(MainStep)
    /\ \A i \in Ids :
        WF_vars(HandlerStep(i)) /\ WF_vars(SenderStep(i)) /\ WF_vars(PeerGone(i))

FairSpec == LiveInit /\ [][LiveNext]_vars /\ Fairness

\* ------------------------------------------------------------------ claims
IsPrefix(a, b) == Len(a) <= Len(b) /\ a = SubSeq(b, 1, Len(a))

\* The identities start() has registered so far.
Registered == 1..client_counter

\* C1: the first message ever put into a client's queue, and so the first one
\* written to its socket, is the decimal string of its own identity.
C1_WelcomeFirst ==
    \A i \in Ids :
        /\ enqueued[i] # <<>> => enqueued[i][1] = str(i)
        /\ written[i] # <<>> => written[i][1] = str(i)

\* The steps of the main thread inside shutdown().
ShutdownStep ==
    ShutdownDisconnect \/ ShutdownClose \/ DcEnter(Main) \/ DcPopQueue(Main)

\* C2: shutdown() runs to its end whatever number of clients is registered
\* (it holds the lock, so nothing but its own next step can move it on), and
\* at its end the registry and the queue set are empty and the listening
\* socket is closed.
C2_ShutdownTerminates ==
    /\ (pc[Main] \in {"sd_loop"} \cup DcPcs) => ENABLED ShutdownStep
    /\ pc[Main] = "stopped" => clients = {} /\ message_queues = {} /\ ~listening

\* What a finished /users iteration lists.
Listed(i) == {iter[i].acc[k] : k \in 1..Len(iter[i].acc)}

\* C3: a /users line always yields a list, which names nobody whose teardown
\* was over when the line arrived and everybody who was connected then and
\* still is.
C3_UsersSnapshot ==
    \A i \in Ids :
        /\ exc[H(i)] \notin {"RuntimeError@104", "KeyError@103"}
        /\ pc[H(i)] = "users_put" =>
            /\ Listed(i) \cap iter[i].gone = {}
            /\ (iter[i].began \cap clients) \subseteq Listed(i)

\* C4: the identities handed out start at 1 and increase strictly, so no two
\* are equal and none is handed out again after its client has left.
C4_IdentitiesIncrease ==
    /\ assigned # <<>> => assigned[1] = 1
    /\ \A j, k \in 1..Len(assigned) : j < k => assigned[j] < assigned[k]

\* The second client is being registered after the first one's teardown.
C4_Witness ==
    /\ pc[Main] = "ins_queue"
    /\ client_id = 2
    /\ conn_closes[1] = 1
    /\ assigned = <<1, 2>>

\* C5: whenever nobody is inside a critical section of the lock, the registry
\* and the queue set hold the same identities.
C5_PairedLifecycle == lock = NoThread => clients = message_queues

\* One client has come and gone, another is registered, the lock is free.
C5_Witness ==
    /\ lock = NoThread
    /\ clients = {2}
    /\ conn_closes[1] = 1

\* C6: what is written to a connection is, in order, a prefix of what was put
\* into that identity's queue; so of two /send lines one sender sent to one
\* recipient, the earlier one's message is written first.
C6_Fifo ==
    /\ \A i \in Ids : IsPrefix(written[i], enqueued[i])
    /\ \A r, s \in Ids : \A j, k \in 1..(MaxLines + MaxSends) :
        j < k =>
            \A p, q \in 1..Len(written[r]) :
                (written[r][p] = RoutedMsg(s, Body(j)) /\ written[r][q] = RoutedMsg(s, Body(k)))
                    => p < q

\* Both messages of one sender have been written to one recipient.
C6_Witness ==
    \E r, s \in Ids : \E p, q \in 1..Len(written[r]) :
        /\ written[r][p] = RoutedMsg(s, Body(1))
        /\ written[r][q] = RoutedMsg(s, Body(2))

\* C7: a /send that finds its recipient unregistered puts exactly one
\* not-found error into the sender's queue, puts nothing anywhere else and
\* leaves the registry and the queue set as they were.
C7_MissFeedback ==
    [][\A s \in Ids :
        (pc[H(s)] = "rt_enter" /\ pc'[H(s)] # "rt_enter" /\ ~RouteFinds(Recipient(s)))
            => /\ enqueued'[s] = Append(enqueued[s], NotFoundMsg(Recipient(s)))
               /\ \A j \in Ids \ {s} : enqueued'[j] = enqueued[j]
               /\ clients' = clients
               /\ message_queues' = message_queues]_vars

\* C8: disconnect_client closes a connection and removes its entries once,
\* however many threads call it for one identity: no call raises, no socket
\* is closed twice, a call that has returned leaves the identity torn down,
\* and a call that finds the identity absent changes nothing.
C8_DisconnectIdempotent ==
    /\ [](\A i \in Ids :
            /\ conn_closes[i] <= 1
            /\ \A t \in Threads : exc[t] \notin {"KeyError@142", "KeyError@143"}
            /\ (pc[H(i)] = "h_done" \/ pc[S(i)] = "s_done")
                => conn_closes[i] = 1 /\ i \notin clients /\ i \notin message_queues)
    /\ [][\A t \in Threads :
            (pc[t] = "dc_enter" /\ pc'[t] # "dc_enter" /\ DcTarget(t) \notin clients)
                => UNCHANGED <<clients, message_queues, queue, conn_closes, lock, exc>>]_vars

\* Both of a client's threads have called disconnect_client and returned.
C8_Witness ==
    \E i \in Ids : pc[H(i)] = "h_done" /\ pc[S(i)] = "s_done" /\ conn_closes[i] = 1

\* C9: a /send that finds its recipient registered puts the message into the
\* recipient's queue and the acknowledgement into the sender's, both inside
\* one critical section, with the recipient registered throughout.
C9_AtomicDelivery ==
    [][\A s \in Ids :
        /\ (pc[H(s)] = "rt_enter" /\ pc'[H(s)] # "rt_enter" /\ RouteFinds(Recipient(s)))
            => /\ pc'[H(s)] = "rt_put_ack"
               /\ lock' = H(s)
               /\ enqueued'[Recipient(s)] =
                    Append(enqueued[Recipient(s)], RoutedMsg(s, data[s][3]))
        /\ (pc[H(s)] = "rt_put_ack" /\ pc'[H(s)] # "rt_put_ack")
            => /\ lock = H(s)
               /\ Recipient(s) \in clients
               /\ enqueued'[s] = Append(enqueued[s], DeliveredMsg(Recipient(s)))]_vars

\* C10: a client leaves the registry only after its own transport has failed
\* or its own peer has closed: never because another client came or went.
C10_Isolation == \A j \in Registered : j \notin clients => failed[j]

\* The places where a thread's function has returned or died.
Ended == {"h_done", "h_dead", "s_done", "s_dead"}

\* The main thread is in shutdown(), or the process is over.
ShuttingDown == pc[Main] \in ({"sd_loop", "stopped", "crashed"} \cup DcPcs)

\* C11: once an identity has been torn down, its handle_client thread and its
\* send_messages thread both end (unless the server is being shut down).
C11_LoopsEnd ==
    \A i \in Ids :
        (conn_closes[i] > 0) ~>
            \/ pc[H(i)] \in Ended /\ pc[S(i)] \in Ended
            \/ ShuttingDown

\* The places whose next statement writes self.clients or self.message_queues,
\* or reads one of them to decide where a message goes, other than the places
\* where that statement itself opens the `with self.lock:` block.
RegistryPlaces ==
    {"ins_queue", "dc_pop_queue", "rt_put_ack",
     "welcome", "bad_format", "unknown", "users_iter", "users_next"}

\* C12: a thread about to write the registry or the queue set, or to read
\* one of them for a routing decision, owns the lock.
C12_LockDiscipline == \A t \in Threads : pc[t] \in RegistryPlaces => lock = t

\* C13: a malformed /send or an unknown line puts exactly one error message
\* into the sender's queue and nothing anywhere else, leaves the registry and
\* the queue set as they were, and the sender's loop goes back to reading.
C13_ErrorOnly ==
    [][\A s \in Ids :
        (pc[H(s)] \in {"bad_format", "unknown"} /\ pc'[H(s)] # pc[H(s)])
            => /\ enqueued'[s] = Append(enqueued[s],
                    IF pc[H(s)] = "bad_format" THEN BadFormatMsg ELSE UnknownMsg)
               /\ \A j \in Ids \ {s} : enqueued'[j] = enqueued[j]
               /\ clients' = clients
               /\ message_queues' = message_queues
               /\ pc'[H(s)] = "recv"]_vars

\* C14: a /send that finds its recipient unregistered leaves the queue of
\* every identity but the sender as it was.
C14_MissFrame ==
    [][\A s \in Ids :
        (pc[H(s)] = "rt_enter" /\ pc'[H(s)] # "rt_enter" /\ ~RouteFinds(Recipient(s)))
            => \A j \in Ids \ {s} : enqueued'[j] = enqueued[j] /\ queue'[j] = queue[j]]_vars

\* A sender has been told of a miss while every client was registered.
C14_Witness ==
    /\ clients = Ids
    /\ \E s \in Ids :
        /\ enqueued[s] # <<>>
        /\ enqueued[s][Len(enqueued[s])] = NotFoundMsg(Stranger)

\* C15: a connection is written by its own send_messages thread only, one
\* item it took from the identity's queue at a time; that thread is started
\* once, when the identity is registered, and never again.
C15_SingleWriter ==
    /\ [](\A i \in Registered :
            pc[S(i)] = "unborn" =>
                client_id = i /\ pc[Main] \in {"ins_queue", "welcome", "spawn"})
    /\ [][\A i \in Ids :
            /\ written'[i] # written[i] =>
                /\ pc[S(i)] = "s_write"
                /\ pc'[S(i)] = "s_lookup"
                /\ written'[i] = Append(written[i], message[i])
                /\ \E k \in 1..Len(enqueued[i]) : enqueued[i][k] = message[i]
            /\ (pc'[S(i)] = "s_start" /\ pc[S(i)] # "s_start") =>
                pc[S(i)] = "unborn" /\ pc[Main] = "spawn" /\ client_id = i]_vars

\* A message one client's handler routed has been written to another
\* client's connection.
C15_Witness ==
    \E r, s \in Ids :
        /\ r # s
        /\ \E k \in 1..Len(written[r]) : written[r][k] = RoutedMsg(s, Body(1))

\* handle_client(i) has left its loop through an empty read, a
\* ConnectionResetError or an error of recv(), and stands before
\* disconnect_client.
ReadEnded(i) == pc[H(i)] = "dc_enter" /\ exc[H(i)] \in {"", "OSError@85"}

\* The places of a handle_client thread that has left its loop.
HandlerLeft == {"dc_enter", "dc_pop_queue", "h_done", "h_dead"}

\* C16: once a client's handle_client thread has seen the end of its input,
\* the identity leaves the registry and the queue set, and the thread takes
\* no further line.
C16_ReadEndDisconnects ==
    /\ \A i \in Ids : ReadEnded(i) ~> (i \notin clients /\ i \notin message_queues)
    /\ [][\A i \in Ids : pc[H(i)] \in HandlerLeft => pc'[H(i)] \in HandlerLeft]_vars

\* send_messages(i) has caught a failed sendall and stands before
\* disconnect_client.
WriteFailed(i) == pc[S(i)] = "dc_enter"

\* The places of a send_messages thread that has left its loop.
SenderLeft == {"dc_enter", "dc_pop_queue", "s_done", "s_dead"}

\* C17: once a write to a client's connection has failed, the identity
\* leaves the registry and the queue set and its send_messages thread ends,
\* writing nothing more to the connection.
C17_WriteFailureDisconnects ==
    /\ \A i \in Ids :
        WriteFailed(i) ~> (i \notin clients /\ i \notin message_queues /\ pc[S(i)] \in Ended)
    /\ [][\A i \in Ids :
            pc[S(i)] \in SenderLeft => pc'[S(i)] \in SenderLeft /\ written'[i] = written[i]]_vars

\* handle_client(s) is inside route_message with itself as the recipient.
SelfSend(s) == pc[H(s)] \in {"rt_enter", "rt_put_ack"} /\ Recipient(s) = s

\* The bodies the lines of a run can carry.
Bodies == {Body(k) : k \in 1..(MaxLines + MaxSends)}

\* C18: a registered sender's /send to itself puts 'message from S: body' and
\* then, with nothing in between, 'delivered to S' into S's queue, changes no
\* other queue, and never waits for the lock between the two.
C18_SelfSend ==
    /\ [](\A s \in Ids :
            /\ \A k \in 1..Len(enqueued[s]) :
                enqueued[s][k] \in {RoutedMsg(s, b) : b \in Bodies} =>
                    IF k < Len(enqueued[s])
                    THEN enqueued[s][k + 1] = DeliveredMsg(s)
                    ELSE pc[H(s)] = "rt_put_ack" /\ lock = H(s)
            /\ (SelfSend(s) /\ pc[H(s)] = "rt_put_ack") => ENABLED RoutePutAck(s))
    /\ [][\A s \in Ids :
            (SelfSend(s) /\ s \in clients /\ pc'[H(s)] # pc[H(s)]) =>
                /\ \A j \in Ids \ {s} : enqueued'[j] = enqueued[j]
                /\ enqueued'[s] = Append(enqueued[s],
                        IF pc[H(s)] = "rt_enter" THEN RoutedMsg(s, data[s][3])
                        ELSE DeliveredMsg(s))
                /\ pc'[H(s)] = IF pc[H(s)] = "rt_enter" THEN "rt_put_ack" ELSE "recv"]_vars

\* A client has sent itself a message and has been told so, with another
\* client registered.
C18_Witness ==
    /\ clients = Ids
    /\ \E s \in Ids : \E k \in 1..Len(enqueued[s]) :
        /\ enqueued[s][k] = RoutedMsg(s, Body(1))
        /\ k < Len(enqueued[s])
        /\ enqueued[s][k + 1] = DeliveredMsg(s)

\* The most one queue can be given in a run of the fair specification: the
\* welcome, and a message and an acknowledgement for every line.
LiveQueueLen == 1 + 2 * MaxLines

\* C19: the k-th message put into the queue of an identity is in the end the
\* k-th message written to its connection, unless the identity leaves the
\* registry or its transport fails; and nothing is written that was not
\* put, or twice.
C19_Delivery ==
    /\ \A i \in Ids : \A k \in 1..LiveQueueLen :
        (Len(enqueued[i]) >= k) ~>
            \/ Len(written[i]) >= k /\ written[i][k] = enqueued[i][k]
            \/ i \notin clients
            \/ failed[i]
    /\ [](\A i \in Ids : IsPrefix(written[i], enqueued[i]))

\* Everything put into the queue of a healthy registered client, a routed
\* message included, has been written.
C19_Witness ==
    \E i \in clients :
        /\ ~failed[i]
        /\ Len(enqueued[i]) >= 2
        /\ written[i] = enqueued[i]

\* The KeyErrors of the lookups self.clients[...] and self.message_queues[...],
\* by the line of the lookup.
KeyErrors ==
    {"KeyError@59", "KeyError@81", "KeyError@99", "KeyError@103", "KeyError@107",
     "KeyError@120", "KeyError@121", "KeyError@124", "KeyError@129", "KeyError@133",
     "KeyError@142", "KeyError@143"}

\* C20: no lookup of self.clients or self.message_queues, by any thread,
\* misses its key.
C20_LookupsFind == \A t \in Threads : exc[t] \notin KeyErrors

====
